---- MODULE Spec2Model ----
(***************************************************************************)
(* MCP23017 16-bit I2C GPIO expander driver (custom_components/mcp23017):  *)
(* register cache, transport fault handling, pin/entity table and the      *)
(* polling worker, modelled from __init__.py.                              *)
(***************************************************************************)
EXTENDS Integers, Sequences, FiniteSets, TLC

(***************************************************************************)
(* Bounds of the model                                                     *)
(***************************************************************************)
\* transport failures the environment may inject in the concurrent specification
MaxFaults == 1
\* transport failures the environment may inject in the sequential specification
MaxSeqFaults == 1
\* caller operations performed in one run of the sequential specification
MaxSeqOps == 3
\* transport failures and caller operations in the specification of the fault log
MaxLogFaults == 3
MaxLogOps == 4

(***************************************************************************)
(* Register map (IOCON.BANK = 1)                                           *)
(***************************************************************************)
IODIRA == 0
IODIRB == 16
GPPUA == 6
GPPUB == 22
GPIOA == 9
GPIOB == 25
OLATA == 10
OLATB == 26

\* globals()[register + "A"] / globals()[register + "B"]
RegAddr(register, bank) ==
    CASE register = "IODIR" -> (IF bank = "A" THEN IODIRA ELSE IODIRB)
      [] register = "GPPU"  -> (IF bank = "A" THEN GPPUA ELSE GPPUB)
      [] register = "GPIO"  -> (IF bank = "A" THEN GPIOA ELSE GPIOB)
      [] register = "OLAT"  -> (IF bank = "A" THEN OLATA ELSE OLATB)

Registers == {"IODIR", "GPPU", "GPIO", "OLAT"}
Pins == 0..15

(***************************************************************************)
(* Integer bit operations on non-negative values, as Python computes them  *)
(***************************************************************************)
\* (the byte masks 0xFF, 0xFF00, 0xFFFF and the bit mask 1 have closed forms)
RECURSIVE BitAnd(_, _)
BitAnd(x, y) ==
    IF x = 0 \/ y = 0 THEN 0
    ELSE IF y = 255 THEN x % 256
    ELSE IF y = 65280 /\ x < 65536 THEN x - (x % 256)
    ELSE IF y = 65535 /\ x < 65536 THEN x
    ELSE IF y = 1 THEN x % 2
    ELSE (x % 2) * (y % 2) + 2 * BitAnd(x \div 2, y \div 2)

RECURSIVE BitOr(_, _)
BitOr(x, y) ==
    IF x = 0 THEN y
    ELSE IF y = 0 THEN x
    ELSE IF x % 256 = 0 /\ y < 256 THEN x + y
    ELSE IF y % 256 = 0 /\ x < 256 THEN x + y
    ELSE (IF x % 2 = 1 \/ y % 2 = 1 THEN 1 ELSE 0) + 2 * BitOr(x \div 2, y \div 2)

RECURSIVE BitXor(_, _)
BitXor(x, y) ==
    IF x = 0 THEN y
    ELSE IF y = 0 THEN x
    ELSE (IF x % 2 = y % 2 THEN 0 ELSE 1) + 2 * BitXor(x \div 2, y \div 2)

\* x << n and x >> n
Shl(x, n) == x * (2 ^ n)
Shr(x, n) == x \div (2 ^ n)

\* ~x & 0xFFFF for 0 <= x <= 0xFFFF (Python's ~x is -x-1)
Inv16(x) == 65535 - x

\* bool(x & (1 << bit))
TestBit(x, bit) == BitAnd(x, Shl(1, bit)) # 0

(***************************************************************************)
(* The chip behind the transport: IODIR, GPPU and OLAT registers and the   *)
(* external levels PINS.  A GPIO read returns the external level of an     *)
(* input pin (IODIR bit 1) and the output latch of an output pin.          *)
(***************************************************************************)
HwGpio(h) == BitOr(BitAnd(h.PINS, h.IODIR), BitAnd(h.OLAT, Inv16(h.IODIR)))

HwReg(h, register) == IF register = "GPIO" THEN HwGpio(h) ELSE h[register]

\* byte returned by read_byte_data(address, addr)
HwRead(h, addr) ==
    CASE addr = IODIRA -> BitAnd(h.IODIR, 255)
      [] addr = IODIRB -> Shr(h.IODIR, 8)
      [] addr = GPPUA  -> BitAnd(h.GPPU, 255)
      [] addr = GPPUB  -> Shr(h.GPPU, 8)
      [] addr = GPIOA  -> BitAnd(HwGpio(h), 255)
      [] addr = GPIOB  -> Shr(HwGpio(h), 8)
      [] addr = OLATA  -> BitAnd(h.OLAT, 255)
      [] addr = OLATB  -> Shr(h.OLAT, 8)

\* chip state after write_byte_data(address, addr, byte)
HwWrite(h, addr, byte) ==
    CASE addr = IODIRA -> [h EXCEPT !.IODIR = BitOr(BitAnd(@, 65280), byte)]
      [] addr = IODIRB -> [h EXCEPT !.IODIR = BitOr(BitAnd(@, 255), Shl(byte, 8))]
      [] addr = GPPUA  -> [h EXCEPT !.GPPU = BitOr(BitAnd(@, 65280), byte)]
      [] addr = GPPUB  -> [h EXCEPT !.GPPU = BitOr(BitAnd(@, 255), Shl(byte, 8))]
      [] addr = OLATA  -> [h EXCEPT !.OLAT = BitOr(BitAnd(@, 65280), byte)]
      [] addr = OLATB  -> [h EXCEPT !.OLAT = BitOr(BitAnd(@, 255), Shl(byte, 8))]
      [] OTHER -> h

(***************************************************************************)
(* State                                                                   *)
(***************************************************************************)
VARIABLES
    hw,             \* the chip: [IODIR, GPPU, OLAT, PINS]
    faultsLeft,     \* transport failures the environment may still inject
    cache,          \* MCP23017._cache
    entities,       \* MCP23017._entities: "None", "passive" or "reactive" per slot
    update_bitmap,  \* MCP23017._update_bitmap
    i2c,            \* [faulted |-> _i2c_faulted, suppressed_logs |-> _i2c_suppressed_logs]
    log,            \* messages _LOGGER received from __getitem__ / __setitem__
    io,             \* transport calls issued by the latest step of the driver
    fails,          \* consecutive transport calls that failed, up to the latest call
    device_lock,    \* MCP23017._device_lock: "free" or the thread holding it
    run,            \* MCP23017._run
    worker,         \* position of the polling thread in run()
    input_state,    \* run()'s local input_state
    data_lock,      \* MCP23017_DATA_LOCK: "free" or the caller holding it
    in_registry,    \* whether hass.data[DOMAIN] holds the device
    pc,             \* position of each caller thread
    op,             \* operation each caller thread is executing
    ret,            \* value being returned to each caller
    delivered,      \* per pin: last level push_update received since the entity was bound
    notified,       \* push_update calls of the poll cycle in progress, in order
    recent,         \* sequential specification: the last two operations, oldest first
    opsLeft,        \* sequential specification: operations still to perform
    hass_running,   \* hass.is_running
    instance,       \* MCP23017 objects constructed so far; the latest is the current one
    holder,         \* per pin: the instance async_get_or_create handed to its entity
    trace,          \* transport calls of the latest MCP23017.__init__, in order
    chip_bank,      \* the chip's IOCON.BANK bit
    fired,          \* the listen_once events of async_setup whose listener has run
    sw              \* a MCP23017Switch with momentary set, its timers and its coroutines

vars == <<hw, faultsLeft, cache, entities, update_bitmap, i2c, log, io, fails, device_lock,
          run, worker, input_state, data_lock, in_registry, pc, op, ret, delivered,
          notified, recent, opsLeft, hass_running, instance, holder, trace, chip_bank,
          fired, sw>>

devVars == <<hw, faultsLeft, cache, entities, update_bitmap, i2c, log, io, fails,
            delivered>>
threadVars == <<device_lock, run, worker, input_state, data_lock, in_registry, pc, op,
                ret, notified>>
seqVars == <<recent, opsLeft>>
regVars == <<hass_running, instance, holder, trace, chip_bank, fired, sw>>

(***************************************************************************)
(* Device connection: __getitem__ / __setitem__                            *)
(***************************************************************************)
\* variant: suppressed failures are not counted
I2cAfter_uncounted(s, ok) ==
    IF ok
    THEN IF s.faulted THEN [faulted |-> FALSE, suppressed_logs |-> 0] ELSE s
    ELSE IF s.faulted THEN s ELSE [faulted |-> TRUE, suppressed_logs |-> 0]

\* _i2c_faulted / _i2c_suppressed_logs after a transport call that succeeded (ok) or
\* raised OSError
I2cAfter(s, ok) ==
    IF ok
    THEN IF s.faulted THEN [faulted |-> FALSE, suppressed_logs |-> 0] ELSE s
    ELSE IF s.faulted
         THEN [s EXCEPT !.suppressed_logs = @ + 1]
         ELSE [faulted |-> TRUE, suppressed_logs |-> 0]

\* the log after that call
LogAfter(l, s, kind, ok) ==
    IF ok
    THEN IF s.faulted
         THEN Append(l, [type |-> "recovery", suppressed |-> s.suppressed_logs])
         ELSE l
    ELSE IF s.faulted
         THEN l
         ELSE Append(l, [type |-> "error", suppressed |-> 0])

\* variant: OSError is not caught by __getitem__
getitem_raising(h, addr, ok) ==
    [data |-> IF ok THEN HwRead(h, addr) ELSE 0, raised |-> ~ok]

\* __getitem__: [data, raised]; OSError is caught and 0 returned
getitem(h, addr, ok) ==
    [data |-> IF ok THEN HwRead(h, addr) ELSE 0, raised |-> FALSE]

\* __setitem__: [hw, raised]; OSError is caught and the byte dropped
setitem(h, addr, byte, ok) ==
    [hw |-> IF ok THEN HwWrite(h, addr, byte) ELSE h, raised |-> FALSE]

\* one transport call of the given kind: fault bookkeeping and log
Transport(kind, addr, ok) ==
    /\ ok \/ faultsLeft > 0
    /\ faultsLeft' = IF ok THEN faultsLeft ELSE faultsLeft - 1
    /\ i2c' = I2cAfter(i2c, ok)
    /\ log' = LogAfter(log, i2c, kind, ok)
    /\ io' = <<[kind |-> kind, addr |-> addr, ok |-> ok]>>
    /\ fails' = IF ok THEN 0 ELSE fails + 1

NoTransport ==
    /\ io' = <<>>
    /\ UNCHANGED <<faultsLeft, i2c, log, fails>>

(***************************************************************************)
(* Register cache: _get_register_value / _set_register_value               *)
(***************************************************************************)
\* variant: the byte read replaces the whole cached register
get_register_cache_whole(c, bit, data) ==
    IF bit < 8 THEN BitAnd(data, 255) ELSE Shl(BitAnd(data, 255), 8)

\* the cached register after merging the byte read for the bank of bit
get_register_cache(c, bit, data) ==
    IF bit < 8
    THEN BitOr(BitAnd(c, 65280), BitAnd(data, 255))
    ELSE BitOr(BitAnd(c, 255), Shl(BitAnd(data, 255), 8))

\* variant: the mask that clears the bit is truncated to one byte
set_register_cache_byte(c, bit, value) ==
    IF value
    THEN BitOr(c, BitAnd(Shl(1, bit), 65535))
    ELSE BitAnd(c, BitAnd(Inv16(Shl(1, bit)), 255))

\* the cached register with bit set to value
set_register_cache(c, bit, value) ==
    IF value
    THEN BitOr(c, BitAnd(Shl(1, bit), 65535))
    ELSE BitAnd(c, BitAnd(Inv16(Shl(1, bit)), 65535))

\* variant: every call writes to the device
needs_write_always(cache_old, cache_new) == TRUE

\* "update device register only if required"
needs_write(cache_old, cache_new) == cache_old # cache_new

\* the bank of bit and the byte of the cached register written to it
bank_of(bit) == IF bit < 8 THEN "A" ELSE "B"

\* variant: the low byte is written whatever the bank
set_register_byte_low(c, bit) == BitAnd(c, 255)


set_register_byte(c, bit) ==
    IF bit < 8 THEN BitAnd(c, 255) ELSE BitAnd(Shr(c, 8), 255)

BoolStr(b) == IF b THEN "True" ELSE "False"

\* variant: the value returned is the bit of the register as cached before the call
get_register_result_cached(register, bit, ok) == BoolStr(TestBit(cache[register], bit))

\* _get_register_value(register, bit): the value returned
get_register_result(register, bit, ok) ==
    LET r == getitem(hw, RegAddr(register, bank_of(bit)), ok)
    IN  IF r.raised THEN "raised"
        ELSE BoolStr(TestBit(get_register_cache(cache[register], bit, r.data), bit))

\* _get_register_value(register, bit): one transport read, merged into the cache
GetRegisterValue(register, bit, ok) ==
    LET addr == RegAddr(register, bank_of(bit))
        r == getitem(hw, addr, ok)
    IN  /\ Transport("read", addr, ok)
        /\ UNCHANGED hw
        /\ cache' = IF r.raised THEN cache
                    ELSE [cache EXCEPT ![register] = get_register_cache(@, bit, r.data)]

\* _set_register_value(register, bit, value): the value returned
set_register_result(register, bit, value, ok) ==
    LET cache_new == set_register_cache(cache[register], bit, value)
    IN  IF /\ needs_write(cache[register], cache_new)
           /\ setitem(hw, RegAddr(register, bank_of(bit)),
                      set_register_byte(cache_new, bit), ok).raised
        THEN "raised" ELSE "None"

\* _set_register_value(register, bit, value): the cache is updated, and the byte of the
\* bank written only if the cached value changed
SetRegisterValue(register, bit, value, ok) ==
    LET addr == RegAddr(register, bank_of(bit))
        cache_old == cache[register]
        cache_new == set_register_cache(cache_old, bit, value)
    IN  /\ cache' = [cache EXCEPT ![register] = cache_new]
        /\ IF needs_write(cache_old, cache_new)
           THEN /\ Transport("write", addr, ok)
                /\ hw' = setitem(hw, addr, set_register_byte(cache_new, bit), ok).hw
           ELSE /\ ok
                /\ NoTransport
                /\ UNCHANGED hw

(***************************************************************************)
(* Pin/entity table: register_entity / unregister_entity / has_no_entities *)
(***************************************************************************)
\* self._entities[entity.pin] = entity
register_slot(ents, pin, kind) == [ents EXCEPT ![pin] = kind]

\* variant: register_entity that does not force the pending bit of the pin
register_bitmap_unset(bitmap, pin) == bitmap

\* self._update_bitmap |= (1 << entity.pin) & 0xFFFF
register_bitmap(bitmap, pin) == BitOr(bitmap, BitAnd(Shl(1, pin), 65535))

\* entity.unsubscribe_update_listener() raises AttributeError on an empty slot
unregister_raises(ents, pin) == ents[pin] = "None"

\* variant: unregister_entity that leaves the slot bound
unregister_slot_kept(ents, pin) == ents

\* self._entities[pin_number] = None
unregister_slot(ents, pin) == [ents EXCEPT ![pin] = "None"]

\* variant: only the first slot is looked at
has_no_entities_first(ents) == ents[0] = "None"

\* not any(self._entities)
has_no_entities(ents) == \A p \in Pins : ents[p] = "None"

RegisterEntity(pin, kind) ==
    /\ entities' = register_slot(entities, pin, kind)
    /\ update_bitmap' = register_bitmap(update_bitmap, pin)
    /\ delivered' = [delivered EXCEPT ![pin] = "none"]

\* variant: unregister_entity leaves no slot occupied
UnregisterEntity_all(pin) ==
    /\ entities' = [p \in Pins |-> "None"]
    /\ delivered' = [p \in Pins |-> "unbound"]

UnregisterEntity(pin) ==
    IF unregister_raises(entities, pin)
    THEN UNCHANGED <<entities, delivered>>
    ELSE /\ entities' = unregister_slot(entities, pin)
         /\ delivered' = [delivered EXCEPT ![pin] = "unbound"]

(***************************************************************************)
(* The body of each caller operation, executed inside "with self:", and    *)
(* what the operation returns ("raised": an exception leaves the body)     *)
(***************************************************************************)
IsPinOp(o) == o.name \in {"get_pin_value", "set_pin_value", "set_input", "set_pullup"}

DoOp(o, ok) ==
    CASE o.name = "get_pin_value" ->
            /\ GetRegisterValue("GPIO", o.pin, ok)
            /\ UNCHANGED <<entities, update_bitmap, delivered>>
      [] o.name = "set_pin_value" ->
            /\ SetRegisterValue("OLAT", o.pin, o.value, ok)
            /\ UNCHANGED <<entities, update_bitmap, delivered>>
      [] o.name = "set_input" ->
            /\ SetRegisterValue("IODIR", o.pin, o.value, ok)
            /\ UNCHANGED <<entities, update_bitmap, delivered>>
      [] o.name = "set_pullup" ->
            /\ SetRegisterValue("GPPU", o.pin, o.value, ok)
            /\ UNCHANGED <<entities, update_bitmap, delivered>>
      [] o.name = "register_entity" ->
            /\ ok
            /\ RegisterEntity(o.pin, o.kind)
            /\ NoTransport
            /\ UNCHANGED <<hw, cache>>
      [] o.name = "unregister_entity" ->
            /\ ok
            /\ UnregisterEntity(o.pin)
            /\ NoTransport
            /\ UNCHANGED <<hw, cache, update_bitmap>>

OpResult(o, ok) ==
    CASE o.name = "get_pin_value" -> get_register_result("GPIO", o.pin, ok)
      [] o.name = "set_pin_value" -> set_register_result("OLAT", o.pin, o.value, ok)
      [] o.name = "set_input" -> set_register_result("IODIR", o.pin, o.value, ok)
      [] o.name = "set_pullup" -> set_register_result("GPPU", o.pin, o.value, ok)
      [] o.name = "register_entity" -> "True"
      [] o.name = "unregister_entity" ->
            IF unregister_raises(entities, o.pin) THEN "raised" ELSE "None"

(***************************************************************************)
(* Device lock: __enter__ / __exit__                                       *)
(***************************************************************************)
\* variant: a lock that never blocks
lock_available_always(l) == TRUE

\* self._device_lock.acquire() returns only when no thread holds the lock
lock_available(l) == l = "free"

\* variant: a section entered without taking the lock
lock_acquired_not(l, t) == l

\* ... and the calling thread then holds it
lock_acquired(l, t) == t

\* variant: leaving the section does not release the lock
lock_released_kept(l) == l

\* self._device_lock.release()
lock_released(l) == "free"

(***************************************************************************)
(* Polling thread: start_polling / stop_polling / run                      *)
(***************************************************************************)
\* variant: no thread is ever reported alive
is_alive_never(w) == FALSE

\* threading.Thread.is_alive()
is_alive(w) == w \notin {"new", "exited", "crashed"}

\* variant: both banks are read in every cycle
any_reactive_always(ents, lo, hi) == TRUE

\* any(hasattr(entity, "push_update") for entity in self._entities[lo:hi])
any_reactive(ents, lo, hi) == \E p \in lo..(hi - 1) : ents[p] = "reactive"

\* input_state & 0xFF00 | self[GPIOA]
merge_bank_a(state, data) == BitOr(BitAnd(state, 65280), data)

\* input_state & 0x00FF | (self[GPIOB] << 8)
merge_bank_b(state, data) == BitOr(BitAnd(state, 255), Shl(data, 8))

\* self._update_bitmap | (input_state ^ self._cache["GPIO"])
changed_bitmap(bitmap, state, gpio) == BitOr(bitmap, BitXor(state, gpio))

\* variant: the loop calls push_update for every pending bit, whatever the slot holds
dispatch_calls_any(bitmap, entity) == BitAnd(bitmap, 1) # 0

\* whether the loop calls push_update for the pin at the head of the shifted bitmap
dispatch_calls(bitmap, entity) == BitAnd(bitmap, 1) # 0 /\ entity = "reactive"

\* variant: the calls of a cycle are made from the highest pin down
RECURSIVE dispatch_down(_, _, _, _, _)
dispatch_down(pin, state, bitmap, ents, calls) ==
    IF pin = 16
    THEN [input_state |-> state, update_bitmap |-> bitmap, notified |-> calls]
    ELSE dispatch_down(pin + 1, Shr(state, 1), Shr(bitmap, 1), ents,
                       IF dispatch_calls(bitmap, ents[pin])
                       THEN <<[pin |-> pin, level |-> BitAnd(state, 1) # 0]>> \o calls
                       ELSE calls)

\* for pin in range(16): ... input_state >>= 1; self._update_bitmap >>= 1
RECURSIVE dispatch_loop(_, _, _, _, _)
dispatch_loop(pin, state, bitmap, ents, calls) ==
    IF pin = 16
    THEN [input_state |-> state, update_bitmap |-> bitmap, notified |-> calls]
    ELSE dispatch_loop(pin + 1, Shr(state, 1), Shr(bitmap, 1), ents,
                       IF dispatch_calls(bitmap, ents[pin])
                       THEN Append(calls, [pin |-> pin, level |-> BitAnd(state, 1) # 0])
                       ELSE calls)

\* the level of the last push_update call for pin among calls, or old when there is none
RECURSIVE LastLevel(_, _, _)
LastLevel(calls, pin, old) ==
    IF calls = <<>> THEN old
    ELSE LastLevel(Tail(calls), pin,
                   IF Head(calls).pin = pin THEN BoolStr(Head(calls).level) ELSE old)

\* start_polling(): self._run = True; self.start()
StartPolling ==
    /\ in_registry
    /\ worker = "new"
    /\ run' = TRUE
    /\ worker' = "idle"
    /\ UNCHANGED <<devVars, seqVars, regVars, device_lock, input_state, data_lock, in_registry,
                   pc, op, ret, notified>>

\* while self._run: with self: input_state = self._cache["GPIO"]
PollAcquire ==
    /\ worker = "idle"
    /\ run
    /\ lock_available(device_lock)
    /\ device_lock' = lock_acquired(device_lock, "poll")
    /\ input_state' = cache["GPIO"]
    /\ worker' = "bankA"
    /\ UNCHANGED <<devVars, seqVars, regVars, run, data_lock, in_registry, pc, op, ret, notified>>

\* the worker's step after a transport call: an exception leaves "with self" (the lock
\* is released) and ends the thread
PollAdvance(raised, next) ==
    IF raised
    THEN /\ worker' = "crashed"
         /\ device_lock' = lock_released(device_lock)
    ELSE /\ worker' = next
         /\ UNCHANGED device_lock

\* bank A: read GPIOA only if an entity of pins 0..7 has push_update
PollBankA ==
    /\ worker = "bankA"
    /\ IF any_reactive(entities, 0, 8)
       THEN \E ok \in BOOLEAN :
               LET r == getitem(hw, GPIOA, ok)
               IN  /\ Transport("read", GPIOA, ok)
                   /\ input_state' =
                         IF r.raised THEN input_state ELSE merge_bank_a(input_state, r.data)
                   /\ PollAdvance(r.raised, "bankB")
       ELSE /\ NoTransport
            /\ UNCHANGED input_state
            /\ PollAdvance(FALSE, "bankB")
    /\ UNCHANGED <<hw, cache, entities, update_bitmap, delivered, seqVars, regVars, run, data_lock,
                   in_registry, pc, op, ret, notified>>

\* bank B: read GPIOB only if an entity of pins 8..15 has push_update
PollBankB ==
    /\ worker = "bankB"
    /\ IF any_reactive(entities, 8, 16)
       THEN \E ok \in BOOLEAN :
               LET r == getitem(hw, GPIOB, ok)
               IN  /\ Transport("read", GPIOB, ok)
                   /\ input_state' =
                         IF r.raised THEN input_state ELSE merge_bank_b(input_state, r.data)
                   /\ PollAdvance(r.raised, "dispatch")
       ELSE /\ NoTransport
            /\ UNCHANGED input_state
            /\ PollAdvance(FALSE, "dispatch")
    /\ UNCHANGED <<hw, cache, entities, update_bitmap, delivered, seqVars, regVars, run, data_lock,
                   in_registry, pc, op, ret, notified>>

\* update the bitmap and the cache, then call push_update for the pins that changed
PollDispatch ==
    /\ worker = "dispatch"
    /\ LET bitmap == changed_bitmap(update_bitmap, input_state, cache["GPIO"])
           d == dispatch_loop(0, input_state, bitmap, entities, <<>>)
       IN  /\ cache' = [cache EXCEPT !["GPIO"] = input_state]
           /\ update_bitmap' = d.update_bitmap
           /\ input_state' = d.input_state
           /\ notified' = d.notified
           /\ delivered' = [p \in Pins |-> LastLevel(d.notified, p, delivered[p])]
    /\ worker' = "release"
    /\ NoTransport
    /\ UNCHANGED <<hw, entities, seqVars, regVars, device_lock, run, data_lock, in_registry, pc, op,
                   ret>>

\* end of "with self": release the lock; time.sleep(DEFAULT_SCAN_RATE)
PollRelease ==
    /\ worker = "release"
    /\ device_lock' = lock_released(device_lock)
    /\ worker' = "idle"
    /\ notified' = <<>>
    /\ UNCHANGED <<devVars, seqVars, regVars, run, input_state, data_lock, in_registry, pc, op, ret>>

\* while self._run: the flag is clear, run() returns
PollExit ==
    /\ worker = "idle"
    /\ ~run
    /\ worker' = "exited"
    /\ UNCHANGED <<devVars, seqVars, regVars, device_lock, run, input_state, data_lock, in_registry,
                   pc, op, ret, notified>>

(***************************************************************************)
(* Caller threads (HA thread pool, dispatched from the event loop)         *)
(***************************************************************************)
\* "loop": the coroutine holding MCP23017_DATA_LOCK and its executor job;
\* "pool": a thread of the pool running a pin operation;
\* "host": the thread running a listener of async_setup
Callers == {"loop", "pool", "host"}

\* pins exercised by the concurrent specification: one of each bank, at the boundary
SpecPins == {7, 8}

NoOp == [name |-> "-", pin |-> 0, value |-> FALSE, kind |-> "None"]

PinOps(pins) ==
    [name : {"get_pin_value"}, pin : pins, value : {FALSE}, kind : {"None"}]
    \cup [name : {"set_pin_value", "set_input", "set_pullup"}, pin : pins,
          value : BOOLEAN, kind : {"None"}]

RegistryOps(pins) ==
    [name : {"register_entity"}, pin : pins, value : {FALSE},
     kind : {"passive", "reactive"}]
    \cup [name : {"unregister_entity"}, pin : pins, value : {FALSE}, kind : {"None"}]

\* get_pin_value / set_pin_value / set_input / set_pullup in a pool thread: "with self:"
\* acquires the lock and the body runs inside it
Call(t, o) ==
    /\ pc[t] = "idle"
    /\ in_registry
    /\ lock_available(device_lock)
    /\ device_lock' = lock_acquired(device_lock, t)
    /\ \E ok \in BOOLEAN :
          /\ DoOp(o, ok)
          /\ ret' = [ret EXCEPT ![t] = OpResult(o, ok)]
    /\ pc' = [pc EXCEPT ![t] = "done"]
    /\ op' = [op EXCEPT ![t] = o]
    /\ UNCHANGED <<seqVars, regVars, run, worker, input_state, data_lock, in_registry, notified>>

\* async_get_or_create / async_unload_entry: "async with MCP23017_DATA_LOCK" and the
\* lookup of the device in hass.data[DOMAIN]
AcquireData(t, o) ==
    /\ pc[t] = "idle"
    /\ in_registry
    /\ data_lock = "free"
    /\ data_lock' = t
    /\ pc' = [pc EXCEPT ![t] = "wait"]
    /\ op' = [op EXCEPT ![t] = o]
    /\ UNCHANGED <<devVars, seqVars, regVars, device_lock, run, worker, input_state, in_registry,
                   ret, notified>>

\* register_entity / unregister_entity in the executor: "with self:" acquires the lock
\* and the body runs inside it
CallDevice(t) ==
    /\ pc[t] = "wait"
    /\ lock_available(device_lock)
    /\ device_lock' = lock_acquired(device_lock, t)
    /\ \E ok \in BOOLEAN :
          /\ DoOp(op[t], ok)
          /\ ret' = [ret EXCEPT ![t] = OpResult(op[t], ok)]
    /\ pc' = [pc EXCEPT ![t] = "done"]
    /\ UNCHANGED <<seqVars, regVars, run, worker, input_state, data_lock, in_registry, op,
                   notified>>

\* end of "with self:" (also when the body raised) and return to the caller; a registry
\* operation leaves "async with MCP23017_DATA_LOCK" unless unregister_entity returned
\* normally, and then goes on to the teardown check
Return(t) ==
    /\ pc[t] = "done"
    /\ device_lock' = lock_released(device_lock)
    /\ io' = <<>>
    /\ ret' = [ret EXCEPT ![t] = "-"]
    /\ op' = [op EXCEPT ![t] = NoOp]
    /\ IF op[t].name = "unregister_entity" /\ ret[t] # "raised"
       THEN /\ pc' = [pc EXCEPT ![t] = "check"]
            /\ UNCHANGED data_lock
       ELSE /\ pc' = [pc EXCEPT ![t] = "idle"]
            /\ data_lock' = IF IsPinOp(op[t]) THEN data_lock ELSE "free"
    /\ UNCHANGED <<hw, faultsLeft, cache, entities, update_bitmap, i2c, log, fails,
                   delivered, seqVars, regVars, run, worker, input_state, in_registry, notified>>

\* async_unload_entry: if component.has_no_entities: if component.is_alive():
\* stop_polling() (self._run = False; self.join()); hass.data[DOMAIN].pop(domain_id)
TeardownCheck(t) ==
    /\ pc[t] = "check"
    /\ IF has_no_entities(entities)
       THEN IF is_alive(worker)
            THEN /\ run' = FALSE
                 /\ pc' = [pc EXCEPT ![t] = "join"]
                 /\ UNCHANGED <<data_lock, in_registry>>
            ELSE /\ in_registry' = FALSE
                 /\ data_lock' = "free"
                 /\ pc' = [pc EXCEPT ![t] = "idle"]
                 /\ UNCHANGED run
       ELSE /\ data_lock' = "free"
            /\ pc' = [pc EXCEPT ![t] = "idle"]
            /\ UNCHANGED <<run, in_registry>>
    /\ UNCHANGED <<devVars, seqVars, regVars, device_lock, worker, input_state, op, ret, notified>>

\* self.join() returns once run() has ended; the device is then removed
Join(t) ==
    /\ pc[t] = "join"
    /\ ~is_alive(worker)
    /\ in_registry' = FALSE
    /\ data_lock' = "free"
    /\ pc' = [pc EXCEPT ![t] = "idle"]
    /\ UNCHANGED <<devVars, seqVars, regVars, device_lock, run, worker, input_state, op, ret,
                   notified>>

(***************************************************************************)
(* Environment: the external level of a pin changes                        *)
(***************************************************************************)
PinChange(p) ==
    /\ in_registry
    /\ hw' = [hw EXCEPT !.PINS = BitXor(@, Shl(1, p))]
    /\ UNCHANGED <<faultsLeft, cache, entities, update_bitmap, i2c, log, io, fails,
                   delivered, threadVars, seqVars, regVars>>

(***************************************************************************)
(* Construction: MCP23017.__init__ seeds the cache from the chip           *)
(***************************************************************************)
seed(h, register) ==
    Shl(HwRead(h, RegAddr(register, "B")), 8) + HwRead(h, RegAddr(register, "A"))

Constructed(h) ==
    /\ cache = [r \in Registers |-> seed(h, r)]
    /\ entities = [p \in Pins |-> "None"]
    /\ update_bitmap = 0
    /\ i2c = [faulted |-> FALSE, suppressed_logs |-> 0]
    /\ log = <<>>
    /\ io = <<>>
    /\ fails = 0
    /\ device_lock = "free"
    /\ run = FALSE
    /\ worker = "new"
    /\ input_state = 0
    /\ data_lock = "free"
    /\ in_registry = TRUE
    /\ pc = [t \in Callers |-> "idle"]
    /\ op = [t \in Callers |-> NoOp]
    /\ ret = [t \in Callers |-> "-"]
    /\ delivered = [p \in Pins |-> "unbound"]
    /\ notified = <<>>
    /\ recent = <<>>
    /\ hass_running = TRUE
    /\ instance = 1
    /\ holder = [p \in Pins |-> 0]
    /\ trace = <<>>
    /\ chip_bank = TRUE
    /\ fired = {"start"}

(***************************************************************************)
(* switch.py: MCP23017Switch with momentary set                            *)
(***************************************************************************)
\* the entity: _invert_logic, _state, _turn_off_timer_cancel (0: None, else the timer
\* it cancels), the timers of async_call_later that are pending, the number of timers
\* made so far, the position of the async_turn_on / async_turn_off coroutine, and the
\* _async_handle_turn_off coroutines whose executor job is queued or has run
SwitchEntity(invert, state) ==
    [invert |-> invert, state |-> state, handle |-> 0, timers |-> {}, made |-> 0,
     call |-> "idle", jobs |-> {}, written |-> {}]

\* MCP23017Switch.__init__ with the default options
SwitchCreated == SwitchEntity(FALSE, "None")

\* the 16-bit values whose set bits are all pins of the given set
RECURSIVE MaskOf(_)
MaskOf(pins) ==
    IF pins = {} THEN 0
    ELSE LET p == CHOOSE q \in pins : TRUE IN Shl(1, p) + MaskOf(pins \ {p})

Levels(pins) == {MaskOf(s) : s \in SUBSET pins}

(***************************************************************************)
(* Concurrent specification: the polling thread, two callers and the pins  *)
(***************************************************************************)
Init ==
    /\ hw \in [IODIR : {65535}, GPPU : {0}, OLAT : {0}, PINS : Levels(SpecPins)]
    /\ faultsLeft = 0
    /\ opsLeft = 0
    /\ Constructed(hw)
    /\ sw = SwitchCreated

\* the threads' steps, for callers drawing their operations from the given sets
Steps(pinops, regops) ==
    \/ StartPolling
    \/ PollAcquire
    \/ PollBankA
    \/ PollBankB
    \/ PollDispatch
    \/ PollRelease
    \/ PollExit
    \/ \E o \in pinops : Call("pool", o)
    \/ \E o \in regops : AcquireData("loop", o)
    \/ CallDevice("loop")
    \/ \E t \in Callers : Return(t)
    \/ TeardownCheck("loop")
    \/ Join("loop")

SpecPinOps == {o \in PinOps(SpecPins) : o.name = "get_pin_value"}
SpecRegistryOps == RegistryOps(SpecPins)

Next ==
    \/ Steps(SpecPinOps, SpecRegistryOps)
    \/ \E p \in SpecPins : PinChange(p)

Spec == Init /\ [][Next]_vars

(***************************************************************************)
(* Concurrent specification of every caller operation against the polling  *)
(* thread on one pin, with transport failures; the external level of the   *)
(* pin is fixed, its GPIO level changes when it is driven as an output     *)
(***************************************************************************)
\* the same threads with both pins in bank A
BankPins == {6, 7}

InitBank ==
    /\ hw \in [IODIR : {65535}, GPPU : {0}, OLAT : {0}, PINS : Levels(BankPins)]
    /\ faultsLeft = 0
    /\ opsLeft = 0
    /\ Constructed(hw)
    /\ sw = SwitchCreated

BankPinOps == {o \in PinOps(BankPins) : o.name = "get_pin_value"}
BankRegistryOps == RegistryOps(BankPins)

NextBank ==
    \/ Steps(BankPinOps, BankRegistryOps)
    \/ \E p \in BankPins : PinChange(p)

SpecBank == InitBank /\ [][NextBank]_vars

OpsPins == {8}

InitOps ==
    /\ hw \in [IODIR : {65535}, GPPU : {0}, OLAT : {0}, PINS : Levels(OpsPins)]
    /\ faultsLeft = MaxFaults
    /\ opsLeft = 0
    /\ Constructed(hw)
    /\ sw = SwitchCreated

OpsPinOps == PinOps(OpsPins)
OpsRegistryOps == RegistryOps(OpsPins)

NextOps == Steps(OpsPinOps, OpsRegistryOps)

SpecOps == InitOps /\ [][NextOps]_vars

(***************************************************************************)
(* Sequential specification: one caller performs whole operations, one     *)
(* after the other, with no polling thread; each step is a complete call   *)
(* ("with self:" entered, the body run, the lock released)                 *)
(***************************************************************************)
SeqPins == {5, 8}

SeqOps == PinOps(SeqPins)

LastTwo(s) == IF Len(s) <= 2 THEN s ELSE Tail(s)

SeqCall(o) ==
    /\ opsLeft > 0
    /\ opsLeft' = opsLeft - 1
    /\ lock_available(device_lock)
    /\ \E ok \in BOOLEAN :
          /\ DoOp(o, ok)
          /\ ret' = [ret EXCEPT !["pool"] = OpResult(o, ok)]
          /\ recent' = LastTwo(Append(recent,
                          [op |-> o, io |-> io', ret |-> OpResult(o, ok),
                           before |-> cache, after |-> cache']))
    /\ UNCHANGED <<device_lock, run, worker, input_state, data_lock, in_registry, pc, op,
                   notified, regVars>>

InitSeq ==
    /\ hw \in [IODIR : {65535}, GPPU : {0}, OLAT : {0}, PINS : Levels(SeqPins)]
    /\ faultsLeft = MaxSeqFaults
    /\ opsLeft = MaxSeqOps
    /\ Constructed(hw)
    /\ sw = SwitchCreated

NextSeq == \E o \in SeqOps : SeqCall(o)

SpecSeq == InitSeq /\ [][NextSeq]_vars

(***************************************************************************)
(* Specification of the register accessors as functions: one call of any   *)
(* pin operation on any of the 16 pins, from sampled register contents     *)
(***************************************************************************)
Samples == {0, 384, 42330, 65535}

BitsOps == PinOps(Pins)

InitBits ==
    /\ hw \in [IODIR : Samples, GPPU : Samples, OLAT : Samples, PINS : {0, 42330}]
    /\ faultsLeft = 1
    /\ opsLeft = 1
    /\ Constructed(hw)
    /\ sw = SwitchCreated

NextBits == \E o \in BitsOps : SeqCall(o)

SpecBits == InitBits /\ [][NextBits]_vars

(***************************************************************************)
(* Specification of the fault log: reads and writes of one pin, each of    *)
(* which may fail                                                          *)
(***************************************************************************)
LogOps == {o \in PinOps({8}) : o.name \in {"get_pin_value", "set_pin_value"}}

InitLog ==
    /\ hw \in [IODIR : {65535}, GPPU : {0}, OLAT : {0}, PINS : {0}]
    /\ faultsLeft = MaxLogFaults
    /\ opsLeft = MaxLogOps
    /\ Constructed(hw)
    /\ sw = SwitchCreated

NextLog == \E o \in LogOps : SeqCall(o)

SpecLog == InitLog /\ [][NextLog]_vars

(***************************************************************************)
(* Construction: MCP23017.__init__                                         *)
(***************************************************************************)
\* transport failures the environment may inject during one construction
MaxInitFaults == 1

\* register address used to toggle IOCON.BANK to 1 (only mapped when BANK is 0)
IOCON_REMAP == 11

\* byte read at addr from a chip whose IOCON.BANK is bank: with BANK = 1 the map is the
\* driver's and IOCON_REMAP is not mapped; with BANK = 0 (reset) address 0 is IODIRA and
\* the driver's other addresses fall on registers it never writes (0 after reset)
ChipRead(h, bank, addr) ==
    IF bank
    THEN IF addr = IOCON_REMAP THEN 0 ELSE HwRead(h, addr)
    ELSE IF addr = IODIRA THEN BitAnd(h.IODIR, 255) ELSE 0

\* IOCON.BANK after a write of byte at IOCON_REMAP: ignored when BANK is already 1
ChipBankAfter(bank, byte, ok) == bank \/ (ok /\ BitAnd(byte, 128) # 0)

\* the registers in the order __init__ seeds them, and each one's bank B read first
SeedOrder == <<"IODIR", "GPPU", "GPIO", "OLAT">>

seed_register(k) == SeedOrder[(k + 1) \div 2]

seed_bank(k) == IF k % 2 = 1 THEN "B" ELSE "A"

\* variant: the cache is seeded before the register map is changed
ctor_seed_bank_early(bank, bank_after) == bank

\* the IOCON.BANK in force when the seeding reads are made
ctor_seed_bank(bank, bank_after) == bank_after

\* self._bus.read_byte(self._address): presence probe
\* (each entry records the IOCON.BANK through which the chip decoded the call)
ctor_probe(bank, ok) ==
    <<[kind |-> "probe", addr |-> 0, ok |-> ok, data |-> 0, bank |-> bank]>>

\* self[IOCON_REMAP] = self[IOCON_REMAP] | 0x80: the read, then the write
ctor_remap(h, bank, oks) ==
    LET r == getitem(h, IOCON_REMAP, FALSE).data
        data == IF oks[1] THEN ChipRead(h, bank, IOCON_REMAP) ELSE r
    IN  <<[kind |-> "read", addr |-> IOCON_REMAP, ok |-> oks[1], data |-> data,
           bank |-> bank],
          [kind |-> "write", addr |-> IOCON_REMAP, ok |-> oks[2],
           data |-> BitOr(data, 128), bank |-> bank]>>

\* the eight reads of the dictionary literal of self._cache
ctor_seed(h, bank, oks) ==
    [k \in 1..8 |->
        LET addr == RegAddr(seed_register(k), seed_bank(k))
        IN  [kind |-> "read", addr |-> addr, ok |-> oks[2 + k],
             data |-> IF oks[2 + k] THEN ChipRead(h, bank, addr)
                      ELSE getitem(h, addr, FALSE).data,
             bank |-> bank]]

\* variant: a failed probe does not end the construction
probe_raises_never(ok) == FALSE

\* except (FileNotFoundError, OSError): raise ValueError(error)
probe_raises(ok) == ~ok

\* the transport calls of __init__, in order; the probe raising ValueError ends it
ctor_trace(h, bank, probe_ok, oks) ==
    IF probe_raises(probe_ok) THEN ctor_probe(bank, probe_ok)
    ELSE LET remap == ctor_remap(h, bank, oks)
             bank_after == ChipBankAfter(bank, remap[2].data, remap[2].ok)
         IN  ctor_probe(bank, probe_ok) \o remap
                \o ctor_seed(h, ctor_seed_bank(bank, bank_after), oks)

\* (self[<register>B] << 8) + self[<register>A] for the four registers
ctor_cache(tr) ==
    [r \in Registers |->
        LET j == CHOOSE n \in 1..4 : SeedOrder[n] = r
        IN  Shl(tr[2 + 2 * j].data, 8) + tr[3 + 2 * j].data]

\* _i2c_faulted / _i2c_suppressed_logs, the log and the run of failures after the
\* register accesses tr[k..]
RECURSIVE ctor_faults(_, _, _)
ctor_faults(tr, k, s) ==
    IF k > Len(tr) THEN s
    ELSE ctor_faults(tr, k + 1,
                     [i2c |-> I2cAfter(s.i2c, tr[k].ok),
                      log |-> LogAfter(s.log, s.i2c, tr[k].kind, tr[k].ok),
                      fails |-> IF tr[k].ok THEN 0 ELSE s.fails + 1])

FailedCalls(oks) == Cardinality({k \in DOMAIN oks : ~oks[k]})

\* the state of the object when __init__ returns: the fields of Constructed, with the
\* cache and the fault bookkeeping as the construction's transport calls left them
ConstructDevice(h, bank, probe_ok, oks) ==
    LET tr == ctor_trace(h, bank, probe_ok, oks)
        f == ctor_faults(tr, 2, [i2c |-> [faulted |-> FALSE, suppressed_logs |-> 0],
                                 log |-> <<>>, fails |-> 0])
    IN  /\ trace' = tr
        /\ chip_bank' = ChipBankAfter(bank, tr[3].data, tr[3].ok)
        /\ cache' = ctor_cache(tr)
        /\ i2c' = f.i2c
        /\ log' = f.log
        /\ fails' = f.fails
        /\ entities' = [p \in Pins |-> "None"]
        /\ update_bitmap' = 0
        /\ device_lock' = "free"
        /\ input_state' = 0
        /\ delivered' = [p \in Pins |-> "unbound"]
        /\ notified' = <<>>
        /\ instance' = instance + 1
        /\ UNCHANGED hw

AllOk == [k \in 1..10 |-> TRUE]

\* the state before any device exists: hass.data[DOMAIN] is empty
NoDevice ==
    /\ cache = [r \in Registers |-> 0]
    /\ entities = [p \in Pins |-> "None"]
    /\ update_bitmap = 0
    /\ i2c = [faulted |-> FALSE, suppressed_logs |-> 0]
    /\ log = <<>>
    /\ io = <<>>
    /\ fails = 0
    /\ device_lock = "free"
    /\ run = FALSE
    /\ worker = "new"
    /\ input_state = 0
    /\ data_lock = "free"
    /\ in_registry = FALSE
    /\ pc = [t \in Callers |-> "idle"]
    /\ op = [t \in Callers |-> NoOp]
    /\ ret = [t \in Callers |-> "-"]
    /\ delivered = [p \in Pins |-> "unbound"]
    /\ notified = <<>>
    /\ recent = <<>>
    /\ opsLeft = 0
    /\ instance = 0
    /\ holder = [p \in Pins |-> 0]
    /\ trace = <<>>

(***************************************************************************)
(* Specification of the construction: MCP23017(bus, address) on a chip in  *)
(* its reset state or left in BANK = 1 by an earlier run, from sampled     *)
(* register contents, with at most MaxInitFaults failing transport calls   *)
(***************************************************************************)
Construct(probe_ok, oks) ==
    /\ trace = <<>>
    /\ IF ~probe_raises(probe_ok)
       THEN /\ FailedCalls(oks) <= faultsLeft
            /\ faultsLeft' = faultsLeft - FailedCalls(oks)
            /\ ConstructDevice(hw, chip_bank, probe_ok, oks)
       ELSE /\ oks = AllOk
            /\ trace' = ctor_trace(hw, chip_bank, probe_ok, oks)
            /\ UNCHANGED <<hw, faultsLeft, cache, entities, update_bitmap, i2c, log, fails,
                           device_lock, input_state, delivered, notified, chip_bank,
                           instance>>
    /\ ret' = [ret EXCEPT !["pool"] = IF probe_raises(probe_ok) THEN "raised" ELSE "None"]
    /\ UNCHANGED <<io, run, worker, data_lock, in_registry, pc, op, seqVars, hass_running,
                   holder, fired, sw>>

InitInit ==
    /\ hw \in [IODIR : Samples, GPPU : Samples, OLAT : Samples, PINS : {0, 42330}]
    /\ chip_bank \in BOOLEAN
    /\ faultsLeft = MaxInitFaults
    /\ hass_running = FALSE
    /\ fired = {}
    /\ NoDevice
    /\ sw = SwitchCreated

NextInit == \E probe_ok \in BOOLEAN : \E oks \in [1..10 -> BOOLEAN] : Construct(probe_ok, oks)

SpecInit == InitInit /\ [][NextInit]_vars

(***************************************************************************)
(* Device registry: async_setup, async_get_or_create, async_unload_entry   *)
(***************************************************************************)
\* MCP23017 objects the registry may construct, one after the other
MaxInstances == 2

\* variant: the lookup never finds the device
in_data_never(reg) == FALSE

\* domain_id in hass.data[DOMAIN]
in_data(reg) == reg

\* Thread.start(): RuntimeError unless the thread was never started
start_raises(w) == w # "new"

\* the thread after start_polling(): self._run = True; self.start()
thread_start(w) == IF start_raises(w) THEN w ELSE "idle"

\* variant: the polling thread is started whatever the state of the host
starts_at_creation_always(running) == TRUE

\* if hass.is_running: component.start_polling()
starts_at_creation(running) == running

\* async_get_or_create, the device is in hass.data[DOMAIN]: component is that device
GetExisting(t, o) ==
    /\ pc[t] = "idle"
    /\ data_lock = "free"
    /\ in_data(in_registry)
    /\ data_lock' = t
    /\ pc' = [pc EXCEPT ![t] = "wait"]
    /\ op' = [op EXCEPT ![t] = o]
    /\ holder' = [holder EXCEPT ![o.pin] = instance]
    /\ UNCHANGED <<devVars, seqVars, device_lock, run, worker, input_state, in_registry,
                   ret, notified, hass_running, instance, trace, chip_bank, fired, sw>>

\* async_get_or_create, no device yet: MCP23017(i2c_bus, i2c_address) in the executor,
\* the entry is inserted and polling started if hass is running
CreateDevice(t, o, probe_ok) ==
    /\ pc[t] = "idle"
    /\ data_lock = "free"
    /\ ~in_data(in_registry)
    /\ instance < MaxInstances
    /\ ~probe_raises(probe_ok)
    /\ ConstructDevice(hw, chip_bank, probe_ok, AllOk)
    /\ in_registry' = TRUE
    /\ run' = starts_at_creation(hass_running)
    /\ worker' = IF starts_at_creation(hass_running) THEN thread_start("new") ELSE "new"
    /\ data_lock' = t
    /\ pc' = [pc EXCEPT ![t] = "wait"]
    /\ op' = [op EXCEPT ![t] = o]
    /\ holder' = [holder EXCEPT ![o.pin] = instance + 1]
    /\ io' = <<>>
    /\ UNCHANGED <<faultsLeft, ret, seqVars, hass_running, fired, sw>>

\* async_get_or_create, no device and the probe fails: ValueError leaves
\* "async with MCP23017_DATA_LOCK"; component = None
CreateFailed(t, o, probe_ok) ==
    /\ pc[t] = "idle"
    /\ data_lock = "free"
    /\ ~in_data(in_registry)
    /\ probe_raises(probe_ok)
    /\ trace' = ctor_trace(hw, chip_bank, probe_ok, AllOk)
    /\ pc' = [pc EXCEPT ![t] = "failed"]
    /\ op' = [op EXCEPT ![t] = o]
    /\ ret' = [ret EXCEPT ![t] = "None"]
    /\ holder' = [holder EXCEPT ![o.pin] = 0]
    /\ UNCHANGED <<devVars, seqVars, device_lock, run, worker, input_state, data_lock,
                   in_registry, notified, hass_running, instance, chip_bank, fired, sw>>

\* return component (None) after the entry was removed and the notification created
FailedReturn(t) ==
    /\ pc[t] = "failed"
    /\ pc' = [pc EXCEPT ![t] = "idle"]
    /\ op' = [op EXCEPT ![t] = NoOp]
    /\ ret' = [ret EXCEPT ![t] = "-"]
    /\ UNCHANGED <<devVars, seqVars, regVars, device_lock, run, worker, input_state,
                   data_lock, in_registry, notified>>

\* EVENT_HOMEASSISTANT_START: hass is running; start_polling(event) starts every
\* component of hass.data[DOMAIN] that is not alive
StartAll ==
    /\ ~hass_running
    /\ hass_running' = TRUE
    /\ fired' = fired \cup {"start"}
    /\ IF in_data(in_registry) /\ ~is_alive(worker)
       THEN /\ run' = TRUE
            /\ worker' = thread_start(worker)
       ELSE UNCHANGED <<run, worker>>
    /\ UNCHANGED <<devVars, seqVars, device_lock, input_state, data_lock, in_registry, pc,
                   op, ret, notified, instance, holder, trace, chip_bank, sw>>

RegPins == {7, 8}

RegisterOps == {o \in RegistryOps(RegPins) : o.name = "register_entity"}

UnloadOps == {o \in RegistryOps(RegPins) : o.name = "unregister_entity"}

InitReg ==
    /\ hw = [IODIR |-> 65535, GPPU |-> 0, OLAT |-> 0, PINS |-> 0]
    /\ chip_bank = FALSE
    /\ faultsLeft = 0
    /\ hass_running = FALSE
    /\ fired = {}
    /\ NoDevice
    /\ sw = SwitchCreated

NextReg ==
    \/ \E o \in RegisterOps : delivered[o.pin] = "unbound" /\ GetExisting("loop", o)
    \/ \E o \in RegisterOps : \E probe_ok \in BOOLEAN : CreateDevice("loop", o, probe_ok)
    \/ \E o \in RegisterOps : \E probe_ok \in BOOLEAN : CreateFailed("loop", o, probe_ok)
    \/ FailedReturn("loop")
    \/ \E o \in UnloadOps : delivered[o.pin] # "unbound" /\ AcquireData("loop", o)
    \/ CallDevice("loop")
    \/ Return("loop")
    \/ TeardownCheck("loop")
    \/ Join("loop")
    \/ StartAll
    \/ PollAcquire
    \/ PollBankA
    \/ PollBankB
    \/ PollDispatch
    \/ PollRelease
    \/ PollExit

SpecReg == InitReg /\ [][NextReg]_vars

(***************************************************************************)
(* Specification of start_polling / stop_polling as methods: a caller may  *)
(* call either in any state of the polling thread                          *)
(***************************************************************************)
\* Thread.join(): RuntimeError if the thread was never started
join_raises(w) == w = "new"

MethodOp(name) == [name |-> name, pin |-> 0, value |-> FALSE, kind |-> "None"]

\* start_polling(): self._run = True; self.start()
StartPollingCall(t) ==
    /\ pc[t] = "idle"
    /\ run' = TRUE
    /\ worker' = thread_start(worker)
    /\ ret' = [ret EXCEPT ![t] = IF start_raises(worker) THEN "raised" ELSE "None"]
    /\ pc' = [pc EXCEPT ![t] = "called"]
    /\ op' = [op EXCEPT ![t] = MethodOp("start_polling")]
    /\ UNCHANGED <<devVars, seqVars, regVars, device_lock, input_state, data_lock,
                   in_registry, notified>>

\* stop_polling(): self._run = False; self.join() is entered
StopPollingCall(t) ==
    /\ pc[t] = "idle"
    /\ run' = FALSE
    /\ IF join_raises(worker)
       THEN /\ ret' = [ret EXCEPT ![t] = "raised"]
            /\ pc' = [pc EXCEPT ![t] = "called"]
       ELSE /\ pc' = [pc EXCEPT ![t] = "joining"]
            /\ UNCHANGED ret
    /\ op' = [op EXCEPT ![t] = MethodOp("stop_polling")]
    /\ UNCHANGED <<devVars, seqVars, regVars, device_lock, worker, input_state, data_lock,
                   in_registry, notified>>

\* self.join() returns once run() has ended
StopJoined(t) ==
    /\ pc[t] = "joining"
    /\ ~is_alive(worker)
    /\ ret' = [ret EXCEPT ![t] = "None"]
    /\ pc' = [pc EXCEPT ![t] = "called"]
    /\ UNCHANGED <<devVars, seqVars, regVars, device_lock, run, worker, input_state,
                   data_lock, in_registry, op, notified>>

\* the method returns (or its exception reaches the caller)
MethodReturn(t) ==
    /\ pc[t] = "called"
    /\ pc' = [pc EXCEPT ![t] = "idle"]
    /\ op' = [op EXCEPT ![t] = NoOp]
    /\ ret' = [ret EXCEPT ![t] = "-"]
    /\ UNCHANGED <<devVars, seqVars, regVars, device_lock, run, worker, input_state,
                   data_lock, in_registry, notified>>

NextPoll ==
    \/ StartPollingCall("loop")
    \/ StopPollingCall("loop")
    \/ StopJoined("loop")
    \/ MethodReturn("loop")
    \/ PollAcquire
    \/ PollBankA
    \/ PollBankB
    \/ PollDispatch
    \/ PollRelease
    \/ PollExit
    \/ \E o \in SpecPinOps : Call("pool", o)
    \/ Return("pool")
    \/ \E p \in SpecPins : PinChange(p)

SpecPoll == Init /\ [][NextPoll]_vars

\* the polling thread is scheduled: a step of run() that can be taken is eventually
\* taken, and so is the return of join() once the thread has ended
PollStep == PollBankA \/ PollBankB \/ PollDispatch \/ PollRelease \/ PollExit

FairPoll == SpecPoll /\ WF_vars(PollStep) /\ WF_vars(StopJoined("loop"))

(***************************************************************************)
(* Host lifecycle: the listeners async_setup registers with listen_once    *)
(* for EVENT_HOMEASSISTANT_START and EVENT_HOMEASSISTANT_STOP, next to the *)
(* registry operations, a pin operation and the polling thread             *)
(***************************************************************************)
\* hass.is_running becomes true before the listener of the start event has run
HostStarting ==
    /\ ~hass_running
    /\ fired = {}
    /\ hass_running' = TRUE
    /\ UNCHANGED <<devVars, threadVars, seqVars, instance, holder, trace, chip_bank, fired,
                   sw>>

\* if not component.is_alive(): component.start_polling()
handler_starts(w) == ~is_alive(w)

\* if component.is_alive(): component.stop_polling()
handler_stops(w) == is_alive(w)

\* start_polling(event): for component in hass.data[DOMAIN].values(): start it unless
\* its thread is alive
StartHandler(t) ==
    /\ pc[t] = "idle"
    /\ hass_running
    /\ "start" \notin fired
    /\ fired' = fired \cup {"start"}
    /\ IF in_data(in_registry) /\ handler_starts(worker)
       THEN /\ run' = TRUE
            /\ worker' = thread_start(worker)
            /\ ret' = [ret EXCEPT ![t] = IF start_raises(worker) THEN "raised" ELSE "None"]
       ELSE /\ ret' = [ret EXCEPT ![t] = "None"]
            /\ UNCHANGED <<run, worker>>
    /\ pc' = [pc EXCEPT ![t] = "called"]
    /\ op' = [op EXCEPT ![t] = MethodOp("start_polling")]
    /\ UNCHANGED <<devVars, seqVars, device_lock, input_state, data_lock, in_registry,
                   notified, hass_running, instance, holder, trace, chip_bank, sw>>

\* stop_polling(event): hass is no longer running; for component in
\* hass.data[DOMAIN].values(): stop it (self._run = False; self.join()) if its thread
\* is alive
StopHandler(t) ==
    /\ pc[t] = "idle"
    /\ "start" \in fired
    /\ "stop" \notin fired
    /\ fired' = fired \cup {"stop"}
    /\ hass_running' = FALSE
    /\ IF in_data(in_registry) /\ handler_stops(worker)
       THEN /\ run' = FALSE
            /\ pc' = [pc EXCEPT ![t] = "joining"]
            /\ UNCHANGED ret
       ELSE /\ ret' = [ret EXCEPT ![t] = "None"]
            /\ pc' = [pc EXCEPT ![t] = "called"]
            /\ UNCHANGED run
    /\ op' = [op EXCEPT ![t] = MethodOp("stop_polling")]
    /\ UNCHANGED <<devVars, seqVars, device_lock, worker, input_state, data_lock,
                   in_registry, notified, instance, holder, trace, chip_bank, sw>>

\* the entity bound to pin 7 reads its pin
HostPinOps == {o \in PinOps({7}) : o.name = "get_pin_value"}

NextHost ==
    \/ \E o \in RegisterOps : delivered[o.pin] = "unbound" /\ GetExisting("loop", o)
    \/ \E o \in RegisterOps : \E probe_ok \in BOOLEAN : CreateDevice("loop", o, probe_ok)
    \/ \E o \in RegisterOps : \E probe_ok \in BOOLEAN : CreateFailed("loop", o, probe_ok)
    \/ FailedReturn("loop")
    \/ \E o \in UnloadOps : delivered[o.pin] # "unbound" /\ AcquireData("loop", o)
    \/ CallDevice("loop")
    \/ Return("loop")
    \/ TeardownCheck("loop")
    \/ Join("loop")
    \/ HostStarting
    \/ StartHandler("host")
    \/ StopHandler("host")
    \/ StopJoined("host")
    \/ MethodReturn("host")
    \/ \E o \in HostPinOps : delivered[o.pin] # "unbound" /\ Call("pool", o)
    \/ Return("pool")
    \/ PollAcquire
    \/ PollBankA
    \/ PollBankB
    \/ PollDispatch
    \/ PollRelease
    \/ PollExit

SpecHost == InitReg /\ [][NextHost]_vars

(***************************************************************************)
(* The registry operations next to a pin operation and the polling thread, *)
(* with every thread scheduled                                             *)
(***************************************************************************)
NextLock ==
    \/ NextReg
    \/ \E o \in HostPinOps : delivered[o.pin] # "unbound" /\ Call("pool", o)
    \/ Return("pool")

SpecLock == InitReg /\ [][NextLock]_vars

\* the steps of a registry operation that wait for nothing but the scheduler
LoopStep ==
    Return("loop") \/ TeardownCheck("loop") \/ Join("loop") \/ FailedReturn("loop")

\* every thread is scheduled: a step of run(), a return, the teardown and the return
\* of join() are taken once they can be, and a thread blocked in acquire() gets the
\* lock if the lock is released again and again
FairLock ==
    /\ SpecLock
    /\ WF_vars(PollStep)
    /\ WF_vars(LoopStep)
    /\ WF_vars(Return("pool"))
    /\ SF_vars(CallDevice("loop"))

(***************************************************************************)
(* Specification of the momentary switch: async_turn_on / async_turn_off   *)
(* called one after the other on an entity of pin SwPin, the timers of     *)
(* async_call_later and the executor jobs that write the pin               *)
(***************************************************************************)
MaxPulses == 3

SwPin == 8

\* pin_value = not value if self._invert_logic else value
pin_value(invert, value) == IF invert THEN ~value ELSE value

\* is_on, without sensor: self._state
is_on(s) == s.state = "True"

\* self._device.set_pin_value(self._pin_number, pin_value) as run by the executor
SwitchWrite(value) ==
    /\ lock_available(device_lock)
    /\ \E ok \in BOOLEAN :
          DoOp([name |-> "set_pin_value", pin |-> SwPin,
                value |-> pin_value(sw.invert, value), kind |-> "None"], ok)
    /\ UNCHANGED <<threadVars, seqVars, hass_running, instance, holder, trace, chip_bank,
                   fired>>

\* a step of the event loop that leaves the device alone
SwitchOnly ==
    UNCHANGED <<devVars, threadVars, seqVars, hass_running, instance, holder, trace,
                chip_bank, fired>>

\* _async_cancel_turn_off_callback_if_exists: the timer of the handle is cancelled
\* (nothing happens if it has fired) and the handle cleared
cancel_if_exists(s) ==
    [s EXCEPT !.timers = IF s.handle # 0 THEN @ \ {s.handle} ELSE @, !.handle = 0]

\* async_turn_on / async_turn_off up to the await of the executor job:
\* async_turn_off returns at once when the switch is not on; otherwise
\* _async_toggle_momentary_switch cancels the timer and queues set_pin_value(True)
TurnCall(name) ==
    /\ sw.call = "idle"
    /\ sw.made < MaxPulses
    /\ name = "async_turn_off" => is_on(sw)
    /\ sw' = [cancel_if_exists(sw) EXCEPT !.call = "job"]
    /\ SwitchOnly

\* the executor runs the job of the call
TurnJob ==
    /\ sw.call = "job"
    /\ SwitchWrite(TRUE)
    /\ sw' = [sw EXCEPT !.call = "written"]

\* the call resumes: self._state = value; _async_schedule_turn_off stores the cancel
\* function of a new timer
TurnResume ==
    /\ sw.call = "written"
    /\ sw' = [sw EXCEPT !.state = "True", !.made = @ + 1, !.handle = sw.made + 1,
                        !.timers = @ \cup {sw.made + 1}, !.call = "idle"]
    /\ SwitchOnly

\* a pending timer fires: _async_handle_turn_off queues set_pin_value(False)
TimerFires(id) ==
    /\ id \in sw.timers
    /\ sw' = [sw EXCEPT !.timers = @ \ {id}, !.jobs = @ \cup {id}]
    /\ SwitchOnly

\* the executor runs the job of the handler
HandlerJob(id) ==
    /\ id \in sw.jobs
    /\ SwitchWrite(FALSE)
    /\ sw' = [sw EXCEPT !.jobs = @ \ {id}, !.written = @ \cup {id}]

\* the handler resumes: self._state = value; self._turn_off_timer_cancel = None
HandlerResume(id) ==
    /\ id \in sw.written
    /\ sw' = [sw EXCEPT !.state = "False", !.handle = 0, !.written = @ \ {id}]
    /\ SwitchOnly

\* the entity after configure_device: the pin is an output and _state is its level
\* xor _invert_logic
InitSwitch ==
    /\ hw \in [IODIR : {65535 - Shl(1, SwPin)}, GPPU : {0}, OLAT : {0, Shl(1, SwPin)},
               PINS : {0}]
    /\ faultsLeft = 0
    /\ opsLeft = 0
    /\ Constructed(hw)
    /\ sw \in {SwitchEntity(inv, BoolStr(TestBit(HwGpio(hw), SwPin) # inv)) :
                 inv \in BOOLEAN}

NextSwitch ==
    \/ \E name \in {"async_turn_on", "async_turn_off"} : TurnCall(name)
    \/ TurnJob
    \/ TurnResume
    \/ \E id \in 1..MaxPulses : TimerFires(id)
    \/ \E id \in 1..MaxPulses : HandlerJob(id)
    \/ \E id \in 1..MaxPulses : HandlerResume(id)

SpecSwitch == InitSwitch /\ [][NextSwitch]_vars

(***************************************************************************)
(* Claims                                                                  *)
(***************************************************************************)
InCycle == {"bankA", "bankB", "dispatch", "release"}

\* number of push_update calls for pin p among calls
Calls(calls, p) == Cardinality({i \in 1..Len(calls) : calls[i].pin = p})

\* C1: at the end of every poll cycle (transport fault-free), each pin bound to a
\* reactive entity has received at most one notification in the cycle, and the last
\* level its entity was notified of is the level the cycle read for the pin, whatever
\* get_pin_value calls ran between the cycles.
C1_ChangeNotified ==
    worker = "release" =>
        \A p \in Pins :
            entities[p] = "reactive" =>
                /\ Calls(notified, p) <= 1
                /\ delivered[p] = BoolStr(TestBit(cache["GPIO"], p))

\* C2: the first poll cycle that dispatches after register_entity of a reactive entity
\* on pin p (nothing delivered to it yet) calls push_update for p exactly once, and a
\* cycle never calls it more than once for a pin.
C2_ForcedInitial ==
    [][(worker = "dispatch" /\ worker' = "release") =>
         \A p \in Pins :
            /\ Calls(notified', p) <= 1
            /\ (entities[p] = "reactive" /\ delivered[p] = "none")
                  => Calls(notified', p) = 1]_vars

\* a cycle has just delivered the forced notification of a pin whose level is still
\* the one cached at construction (False), to both pins in one cycle
C2_Witness ==
    /\ worker = "release"
    /\ notified = <<[pin |-> 7, level |-> FALSE], [pin |-> 8, level |-> FALSE]>>
    /\ hw.PINS = 0

\* C3: no poll cycle calls push_update for a pin whose unregister_entity has returned
\* (and that has not been registered again since).
C3_NoNotifyAfterUnregister ==
    [][(worker = "dispatch" /\ worker' = "release") =>
         \A i \in 1..Len(notified') : delivered[notified'[i].pin] # "unbound"]_vars

\* a cycle is about to dispatch with the pending bit of pin 8 still set, after
\* unregister_entity(8) has returned
C3_Witness ==
    /\ worker = "dispatch"
    /\ TestBit(update_bitmap, 8)
    /\ delivered[8] = "unbound"
    /\ entities[8] = "None"
    /\ entities[7] = "reactive"

\* threads inside a device-lock section
InSection == {t \in Callers : pc[t] = "done"} \cup (IF worker \in InCycle THEN {"poll"} ELSE {})

\* C4: at most one thread (the poll cycle or a caller operation) is inside the
\* device-lock section, it is the holder of the lock, and while a poll cycle is between
\* reading the cache and the end of its dispatch no other thread's step changes the
\* register cache, the entity table or the update bitmap.
C4_MutualExclusion ==
    /\ [](Cardinality(InSection) <= 1 /\ \A t \in InSection : device_lock = t)
    /\ [][(worker \in {"bankA", "bankB", "dispatch"} /\ worker' = worker)
             => UNCHANGED <<cache, entities, update_bitmap>>]_vars

\* a registry operation waits for the device lock while a poll cycle holds it
C4_Witness ==
    /\ device_lock = "poll"
    /\ worker = "dispatch"
    /\ pc["loop"] = "wait"

\* steps of thread t that read or write the register cache or the entity table
CallerAccess(t) ==
    \/ pc[t] \in {"idle", "wait"} /\ pc'[t] = "done"
    \/ pc[t] = "check" /\ pc'[t] # "check"

PollAccess == worker \in {"idle", "bankA", "bankB", "dispatch"} /\ worker' \in InCycle

HoldsLock(t) == device_lock = t \/ device_lock' = t

SetRegister(o) ==
    CASE o.name = "set_pin_value" -> "OLAT"
      [] o.name = "set_input" -> "IODIR"
      [] o.name = "set_pullup" -> "GPPU"

SetNames == {"set_pin_value", "set_input", "set_pullup"}

Writes(calls) == {i \in 1..Len(calls) : calls[i].kind = "write"}

\* C6: with no transport fault so far, when pin p is configured as output,
\* set_pin_value(p, v) immediately followed by get_pin_value(p) returns v.
C6_RoundTrip ==
    (/\ Len(recent) = 2
     /\ recent[1].op.name = "set_pin_value"
     /\ recent[2].op.name = "get_pin_value"
     /\ recent[2].op.pin = recent[1].op.pin
     /\ faultsLeft = MaxSeqFaults
     /\ ~TestBit(recent[1].before["IODIR"], recent[1].op.pin))
        => recent[2].ret = BoolStr(recent[1].op.value)

\* pin 8 was made an output and set high while its external level is low; the read
\* returns True
C6_Witness ==
    /\ Len(recent) = 2
    /\ recent[1].op.name = "set_pin_value" /\ recent[1].op.pin = 8 /\ recent[1].op.value
    /\ recent[2].op.name = "get_pin_value" /\ recent[2].op.pin = 8
    /\ ~TestBit(recent[1].before["IODIR"], 8)
    /\ ~TestBit(recent[1].before["OLAT"], 8)
    /\ ~TestBit(hw.PINS, 8)
    /\ faultsLeft = MaxSeqFaults
    /\ recent[2].ret = "True"

\* C7: a set operation issues one transport write, to the address of the register for
\* the bank of the pin, exactly when the cached 16-bit value of the register changes,
\* and none otherwise; two consecutive set_pin_value(p, v) with the same p and v issue
\* one write in total (in the first call, to OLATA for p < 8 and OLATB otherwise) when
\* the cached OLAT bit of p differed from v before the first call, and none otherwise.
C7_WriteSuppression ==
    /\ \A i \in 1..Len(recent) :
          LET e == recent[i]
          IN  e.op.name \in SetNames =>
                 LET reg == SetRegister(e.op)
                 IN  IF e.before[reg] # e.after[reg]
                     THEN /\ Len(e.io) = 1
                          /\ e.io[1].kind = "write"
                          /\ e.io[1].addr = RegAddr(reg, IF e.op.pin < 8 THEN "A" ELSE "B")
                     ELSE e.io = <<>>
    /\ (/\ Len(recent) = 2
        /\ recent[1].op.name = "set_pin_value"
        /\ recent[2].op = recent[1].op)
          => /\ recent[2].io = <<>>
             /\ IF TestBit(recent[1].before["OLAT"], recent[1].op.pin) # recent[1].op.value
                THEN /\ Cardinality(Writes(recent[1].io)) = 1
                     /\ recent[1].io[1].addr = (IF recent[1].op.pin < 8 THEN OLATA ELSE OLATB)
                ELSE recent[1].io = <<>>

\* set_pin_value(5, True) twice from a low cached bit: one write to OLATA, then none
C7_Witness ==
    /\ Len(recent) = 2
    /\ recent[1].op = [name |-> "set_pin_value", pin |-> 5, value |-> TRUE, kind |-> "None"]
    /\ recent[2].op = recent[1].op
    /\ recent[1].io = <<[kind |-> "write", addr |-> 10, ok |-> TRUE]>>
    /\ recent[2].io = <<>>

\* C8: after a set operation on pin p with value v, bit p of the cached register equals
\* v, every other bit of it is unchanged and the other three cached registers are
\* unchanged.
C8_BitIsolation ==
    \A i \in 1..Len(recent) :
       LET e == recent[i]
       IN  e.op.name \in SetNames =>
              /\ \A q \in Pins :
                    TestBit(e.after[SetRegister(e.op)], q)
                       = (IF q = e.op.pin THEN e.op.value
                          ELSE TestBit(e.before[SetRegister(e.op)], q))
              /\ \A r \in Registers \ {SetRegister(e.op)} : e.after[r] = e.before[r]

\* bit 7 is cleared next to a set bit 8
C8_Witness ==
    /\ Len(recent) = 1
    /\ recent[1].op.name = "set_pin_value" /\ recent[1].op.pin = 7 /\ ~recent[1].op.value
    /\ recent[1].before["OLAT"] = 384
    /\ recent[1].after["OLAT"] = 256

\* C9: the first failed transport call of an episode logs one error; each following
\* consecutive failure logs nothing and adds one to the suppressed count; the first
\* successful call after N + 1 failures logs one recovery carrying N and resets the
\* faulted flag and the count; any other step logs nothing.
C9_FaultEpisodeLog ==
    [][/\ (fails = 0 /\ fails' = 1)
            => /\ log' = Append(log, [type |-> "error", suppressed |-> 0])
               /\ i2c' = [faulted |-> TRUE, suppressed_logs |-> 0]
       /\ (fails > 0 /\ fails' = fails + 1)
            => /\ log' = log
               /\ i2c' = [faulted |-> TRUE, suppressed_logs |-> fails]
       /\ (fails > 0 /\ fails' = 0)
            => /\ log' = Append(log, [type |-> "recovery", suppressed |-> fails - 1])
               /\ i2c' = [faulted |-> FALSE, suppressed_logs |-> 0]
       /\ (fails' = fails) => (log' = log /\ i2c' = i2c)]_vars

\* three failures in a row, then a success
C9_Witness ==
    /\ log = <<[type |-> "error", suppressed |-> 0], [type |-> "recovery", suppressed |-> 2]>>
    /\ fails = 0

\* C10: the step in which a transport call fails does not raise and does not end the
\* poll thread: the poll cycle goes on to its next stage with the lock held and the byte
\* of the bank read as 0; the caller's operation completes without raising, a failed
\* read giving level 0 (False) and a failed write leaving the chip as it was; and the
\* lock is only ever held by a cycle or an operation that is on its way to releasing it.
C10_FaultContained ==
    /\ [](/\ worker # "crashed"
          /\ (device_lock = "poll") = (worker \in InCycle)
          /\ \A t \in Callers : (device_lock = t) = (pc[t] = "done")
          /\ \A t \in Callers : ret[t] # "raised" \/ op[t].name = "unregister_entity")
    /\ [][faultsLeft' < faultsLeft =>
            /\ worker = "bankA" =>
                  (worker' = "bankB" /\ device_lock' = "poll"
                     /\ BitAnd(input_state', 255) = 0)
            /\ worker = "bankB" =>
                  (worker' = "dispatch" /\ device_lock' = "poll"
                     /\ BitAnd(input_state', 65280) = 0)
            /\ \A t \in Callers :
                  pc'[t] # pc[t] =>
                     /\ pc'[t] = "done"
                     /\ hw' = hw
                     /\ ret'[t] = (IF op'[t].name = "get_pin_value" THEN "False" ELSE "None")]_vars

\* a poll cycle is past a read that failed and still holds the lock
C10_Witness ==
    /\ worker \in {"bankB", "dispatch"}
    /\ io # <<>>
    /\ ~io[1].ok
    /\ device_lock = "poll"
    /\ faultsLeft < MaxFaults

TeardownStep == pc["loop"] = "check" /\ pc'["loop"] # "check"

\* C12: the entry leaves the registry only in async_unload_entry, with the entity table
\* empty and the polling thread not running; whenever no registry operation is in
\* progress and every entity of a constructed device was released, the registry has no
\* entry and the thread is not running; a release that leaves a slot occupied keeps the
\* entry and does not stop polling.
C12_Teardown ==
    /\ [](((instance > 0 /\ data_lock = "free" /\ has_no_entities(entities))
             => (~in_registry /\ worker \in {"new", "exited"}))
          /\ (~has_no_entities(entities) => in_registry))
    /\ [][/\ (in_registry /\ ~in_registry') =>
                /\ pc["loop"] \in {"check", "join"}
                /\ has_no_entities(entities)
                /\ worker' \in {"new", "exited"}
          /\ (TeardownStep /\ ~has_no_entities(entities)) =>
                (in_registry' /\ run' = run /\ worker' = worker)]_vars

\* both entities of the first device were released: no entry, the thread has exited
C12_Witness ==
    /\ holder[7] = 1 /\ holder[8] = 1
    /\ instance = 1
    /\ pc["loop"] = "idle"
    /\ ~in_registry
    /\ worker = "exited"

\* C13: an async_get_or_create call that finds no entry and whose presence probe fails
\* leaves the registry without entry, constructs no instance, starts no polling thread,
\* has released the registry lock and hands None to its caller.
C13_ProbeFailure ==
    [][(/\ pc["loop"] = "idle"
        /\ pc'["loop"] # "idle"
        /\ ~in_registry
        /\ trace' # <<>>
        /\ ~trace'[1].ok)
          => /\ ~in_registry'
             /\ instance' = instance
             /\ run' = run
             /\ worker' = worker
             /\ entities' = entities
             /\ data_lock' = "free"
             /\ ret'["loop"] = "None"
             /\ holder'[op'["loop"].pin] = 0]_vars

\* the call whose probe failed is about to return None, after a first device was
\* created and torn down
C13_Witness ==
    /\ pc["loop"] = "failed"
    /\ ret["loop"] = "None"
    /\ trace = <<[kind |-> "probe", addr |-> 0, ok |-> FALSE, data |-> 0, bank |-> TRUE]>>
    /\ instance = 1
    /\ ~in_registry
    /\ data_lock = "free"
    /\ worker = "exited"

\* the occupied slots of an entity table
Occupied(ents) == {p \in Pins : ents[p] # "None"}

\* the step in which the registry operation of the given name runs inside the device
DeviceStep(name) ==
    pc["loop"] = "wait" /\ pc'["loop"] = "done" /\ op["loop"].name = name

\* C14: has_no_entities is true exactly when no pin is bound; it is false after every
\* register_entity, true after the unregister_entity that empties the last occupied
\* slot and false after one that leaves another slot occupied.
C14_HasNoEntities ==
    /\ [](has_no_entities(entities) <=> \A p \in Pins : delivered[p] = "unbound")
    /\ [][/\ DeviceStep("register_entity") => ~has_no_entities(entities')
          /\ (DeviceStep("unregister_entity") /\ ret'["loop"] # "raised") =>
                (has_no_entities(entities') <=> Occupied(entities) = {op["loop"].pin})]_vars

\* the unregister_entity that empties the last of two occupied slots has just returned
C14_Witness ==
    /\ pc["loop"] = "done"
    /\ op["loop"].name = "unregister_entity"
    /\ op["loop"].pin = 8
    /\ ret["loop"] = "None"
    /\ has_no_entities(entities)
    /\ delivered[7] = "unbound"
    /\ update_bitmap = 128

MethodStep(name) ==
    pc["loop"] = "idle" /\ pc'["loop"] # "idle" /\ op'["loop"].name = name

\* C16: start_polling and stop_polling complete without error in every state of the
\* device; start_polling leaves an already polling device as it is and puts any other
\* device in Running, also after a stop_polling; stop_polling leaves a device that is
\* not polling as it is.
C16_Idempotent ==
    [][/\ MethodStep("start_polling") =>
             /\ ret'["loop"] # "raised"
             /\ is_alive(worker') /\ run'
             /\ (is_alive(worker) /\ run) => worker' = worker
       /\ MethodStep("stop_polling") =>
             /\ ret'["loop"] # "raised"
             /\ ~is_alive(worker) => (worker' = worker /\ ~run')]_vars

\* C17 as stated: while MCP23017_DATA_LOCK is held its holder does not wait for a device
\* lock that another thread holds, does not wait for a polling thread to exit, and no
\* step that leaves the lock held performs the transport calls of a construction.
C17_RegistryLockShort ==
    /\ [](\A t \in Callers :
             data_lock = t =>
                /\ ~(pc[t] = "wait" /\ device_lock # "free")
                /\ ~(pc[t] = "join" /\ is_alive(worker)))
    /\ [][trace' # trace => data_lock' = "free"]_vars

\* the addresses of the seeding reads, in order: IODIRB, IODIRA, GPPUB, GPPUA, GPIOB,
\* GPIOA, OLATB, OLATA
SeedAddrs == <<16, 0, 22, 6, 25, 9, 26, 10>>

\* C18: a construction whose probe succeeds issues, after the probe, the read and then
\* the write (with bit 0x80 set) at IOCON_REMAP and then the eight seeding reads, bank B
\* before bank A for IODIR, GPPU, GPIO, OLAT; each cached value is (bank-B byte << 8) +
\* bank-A byte of the bytes read; when no call failed the chip is in BANK = 1 and the
\* cache equals the chip's registers, whether the chip started in BANK = 0 or BANK = 1.
\* A construction whose probe fails issues no other call.
C18_ConstructionOrder ==
    trace # <<>> =>
       IF ~trace[1].ok THEN Len(trace) = 1 /\ instance = 0
       ELSE /\ Len(trace) = 11
            /\ trace[1].kind = "probe"
            /\ trace[2].kind = "read" /\ trace[2].addr = 11
            /\ trace[3].kind = "write" /\ trace[3].addr = 11
            /\ trace[3].data = BitOr(trace[2].data, 128)
            /\ \A k \in 1..8 : trace[3 + k].kind = "read" /\ trace[3 + k].addr = SeedAddrs[k]
            /\ cache["IODIR"] = trace[4].data * 256 + trace[5].data
            /\ cache["GPPU"] = trace[6].data * 256 + trace[7].data
            /\ cache["GPIO"] = trace[8].data * 256 + trace[9].data
            /\ cache["OLAT"] = trace[10].data * 256 + trace[11].data
            /\ faultsLeft = MaxInitFaults =>
                  /\ chip_bank
                  /\ \A k \in 1..8 : trace[3 + k].bank
                  /\ \A r \in Registers : cache[r] = HwReg(hw, r)

\* a chip left in BANK = 1 by an earlier run ignored the remap write and the cache holds
\* its registers
C18_Witness ==
    /\ Len(trace) = 11
    /\ trace[3].bank
    /\ faultsLeft = MaxInitFaults
    /\ hw.OLAT = 42330
    /\ cache["OLAT"] = 42330
    /\ hw.IODIR = 384
    /\ cache["IODIR"] = 384

\* C19: clearing the running flag does not touch the cycle in flight; a thread outside
\* a cycle does not hold the device lock; with the flag clear a waiting thread starts no
\* cycle; and under fair scheduling a stop_polling that waits in join() eventually
\* returns, with the thread exited and the device lock not held by it.
C19_StopTerminates ==
    /\ [](worker \in {"new", "idle", "exited"} => device_lock # "poll")
    /\ [][(run /\ ~run') => (worker' = worker /\ device_lock' = device_lock)]_vars
    /\ [][(~run /\ ~run' /\ worker = "idle") => worker' \in {"idle", "exited"}]_vars
    /\ (pc["loop"] = "joining")
          ~> (pc["loop"] = "called" /\ ret["loop"] = "None" /\ worker = "exited"
                /\ device_lock # "poll")

\* stop_polling waits in join() while a cycle is in flight
C19_Witness ==
    /\ pc["loop"] = "joining"
    /\ ~run
    /\ worker = "dispatch"
    /\ device_lock = "poll"

\* C20: whenever the device lock is free, every pin bound to a reactive entity whose
\* cached GPIO bit differs from the level last delivered to the entity has its bit set
\* in the update bitmap.
C20_DifferencePending ==
    device_lock = "free" =>
        \A p \in Pins :
            (/\ entities[p] = "reactive"
             /\ delivered[p] \in {"True", "False"}
             /\ delivered[p] # BoolStr(TestBit(cache["GPIO"], p)))
                => TestBit(update_bitmap, p)

\* the step in which a poll cycle updates the cache and makes its push_update calls
DispatchStep == worker = "dispatch" /\ worker' = "release"

\* C21: every cycle consumes the whole update bitmap: it is 0 when the cycle ends, a
\* passive entity or an empty slot never receives a call, a call is made only for a
\* bit set by register_entity since the last cycle or for a level that changed in
\* this cycle, and between cycles the bitmap only gains the bit of a pin being
\* registered, so a change seen while the pin had no reactive entity is never
\* delivered by a later cycle.
C21_BitmapConsumed ==
    /\ [](/\ worker = "release" => update_bitmap = 0
          /\ \A i \in 1..Len(notified) : entities[notified[i].pin] = "reactive")
    /\ [][/\ DispatchStep =>
                /\ update_bitmap' = 0
                /\ \A p \in Pins :
                      /\ entities[p] # "reactive" => Calls(notified', p) = 0
                      /\ Calls(notified', p) > 0 =>
                            \/ TestBit(update_bitmap, p)
                            \/ TestBit(input_state, p) # TestBit(cache["GPIO"], p)
          /\ (update_bitmap' # update_bitmap /\ ~DispatchStep) =>
                /\ DeviceStep("register_entity")
                /\ update_bitmap' = BitOr(update_bitmap, Shl(1, op["loop"].pin))]_vars

\* a cycle is about to dispatch a level change of pin 6, bound to a passive entity in
\* the bank that pin 7's reactive entity makes the cycle read
C21_Witness ==
    /\ worker = "dispatch"
    /\ entities[6] = "passive"
    /\ entities[7] = "reactive"
    /\ update_bitmap = 0
    /\ TestBit(input_state, 6) # TestBit(cache["GPIO"], 6)
    /\ TestBit(input_state, 7) = TestBit(cache["GPIO"], 7)

\* C22: the push_update calls of one cycle are made in strictly ascending pin order,
\* so at most one per pin, and the level passed for pin i is bit i of the merged GPIO
\* value of the cycle, which becomes the cached GPIO value.
C22_DispatchOrder ==
    [][DispatchStep =>
         /\ \A i, j \in 1..Len(notified') :
               i < j => notified'[i].pin < notified'[j].pin
         /\ \A i \in 1..Len(notified') :
               notified'[i].level = TestBit(input_state, notified'[i].pin)
         /\ cache'["GPIO"] = input_state]_vars

\* one cycle has notified pin 7 with True and then pin 8 with False
C22_Witness ==
    /\ worker = "release"
    /\ notified = <<[pin |-> 7, level |-> TRUE], [pin |-> 8, level |-> FALSE]>>
    /\ cache["GPIO"] = 128

\* C23: a cycle reads GPIOA exactly when an entity of pins 0..7 is reactive and GPIOB
\* exactly when one of pins 8..15 is; for a bank it does not read, the byte of the
\* cached GPIO value is left as it was and no change is seen for the pins of the bank.
C23_BankSkip ==
    [][/\ (worker = "bankA" /\ worker' # "bankA") =>
             IF \E p \in 0..7 : entities[p] = "reactive"
             THEN io' = <<[kind |-> "read", addr |-> GPIOA, ok |-> TRUE]>>
             ELSE io' = <<>> /\ input_state' = input_state
       /\ (worker = "bankB" /\ worker' # "bankB") =>
             IF \E p \in 8..15 : entities[p] = "reactive"
             THEN io' = <<[kind |-> "read", addr |-> GPIOB, ok |-> TRUE]>>
             ELSE io' = <<>> /\ input_state' = input_state
       /\ DispatchStep =>
             /\ (~\E p \in 0..7 : entities[p] = "reactive") =>
                   /\ BitAnd(cache'["GPIO"], 255) = BitAnd(cache["GPIO"], 255)
                   /\ \A i \in 1..Len(notified') : notified'[i].pin >= 8
             /\ (~\E p \in 8..15 : entities[p] = "reactive") =>
                   /\ BitAnd(cache'["GPIO"], 65280) = BitAnd(cache["GPIO"], 65280)
                   /\ \A i \in 1..Len(notified') : notified'[i].pin < 8]_vars

\* a cycle has skipped bank A, whose only entity is passive and whose pin 7 changed
\* since the cache was filled, and will read bank B
C23_Witness ==
    /\ worker = "bankB"
    /\ io = <<>>
    /\ entities[7] = "passive"
    /\ entities[8] = "reactive"
    /\ TestBit(hw.PINS, 7) # TestBit(cache["GPIO"], 7)

\* the byte the chip returns for the GPIO bank of pin p
GpioByte(h, p) == IF p < 8 THEN BitAnd(HwGpio(h), 255) ELSE Shr(HwGpio(h), 8)

\* C24: get_pin_value(p) makes exactly one transport read, of GPIOA for p < 8 and of
\* GPIOB otherwise, replaces that byte of the cached GPIO value by the byte read (0
\* when the read failed), leaves the other byte and the other cached registers as
\* they were, and returns bit p of the merged value.
C24_ReadPin ==
    recent # <<>> =>
       LET e == recent[Len(recent)]
           p == e.op.pin
           byte == IF e.io[1].ok THEN GpioByte(hw, p) ELSE 0
       IN  e.op.name = "get_pin_value" =>
              /\ Len(e.io) = 1
              /\ e.io[1].kind = "read"
              /\ e.io[1].addr = (IF p < 8 THEN GPIOA ELSE GPIOB)
              /\ e.after["GPIO"] =
                    (IF p < 8 THEN BitAnd(e.before["GPIO"], 65280) + byte
                     ELSE BitAnd(e.before["GPIO"], 255) + 256 * byte)
              /\ \A r \in Registers \ {"GPIO"} : e.after[r] = e.before[r]
              /\ e.ret = BoolStr(TestBit(e.after["GPIO"], p))

\* pin 5 was made an output and driven high after the cache was filled; the read
\* refreshes the low byte next to the set bit 8 and returns True
C24_Witness ==
    /\ recent # <<>>
    /\ recent[Len(recent)].op.name = "get_pin_value"
    /\ recent[Len(recent)].op.pin = 5
    /\ recent[Len(recent)].io = <<[kind |-> "read", addr |-> 9, ok |-> TRUE]>>
    /\ recent[Len(recent)].before["GPIO"] = 256
    /\ recent[Len(recent)].after["GPIO"] = 288
    /\ recent[Len(recent)].ret = "True"

\* the step in which a pool thread runs get_pin_value
ReadPinStep ==
    pc["pool"] = "idle" /\ pc'["pool"] = "done" /\ op'["pool"].name = "get_pin_value"

\* the pin of the call is bound to a passive entity, its bank has no reactive entity
\* and the cached level of the pin is not the level of the chip
StaleCache(p) ==
    /\ entities[p] = "passive"
    /\ ~\E q \in Pins : (q < 8) = (p < 8) /\ entities[q] = "reactive"
    /\ TestBit(cache["GPIO"], p) # TestBit(HwGpio(hw), p)

\* C25 as stated: a get_pin_value for a passive entity whose bank has no reactive
\* entity returns the level cached before the call, which lags the chip until the
\* next poll cycle.
C25_StaleRead ==
    [][(ReadPinStep /\ StaleCache(op'["pool"].pin)) =>
          ret'["pool"] = BoolStr(TestBit(cache["GPIO"], op'["pool"].pin))]_vars

\* C25 amended: with a fault-free transport every get_pin_value returns the level the
\* chip has at the time of the call, whatever entities are bound, and the cached bit
\* of the pin is that level afterwards.
C25_FreshRead ==
    [][ReadPinStep =>
          /\ ret'["pool"] = BoolStr(TestBit(HwGpio(hw), op'["pool"].pin))
          /\ TestBit(cache'["GPIO"], op'["pool"].pin)
                = TestBit(HwGpio(hw), op'["pool"].pin)]_vars

\* get_pin_value(7) has returned True for a passive entity while the thread polls and
\* no bank is read by the cycles
C25_Witness ==
    /\ pc["pool"] = "done"
    /\ op["pool"].name = "get_pin_value"
    /\ op["pool"].pin = 7
    /\ ret["pool"] = "True"
    /\ entities[7] = "passive"
    /\ entities[8] = "None"
    /\ worker = "idle"
    /\ run
    /\ TestBit(hw.PINS, 7)

\* C26: unregister_entity on an empty slot raises to its caller or does nothing: the
\* entity table, the bitmap, the cache and the polling thread are as before; when it
\* raised, the device lock and MCP23017_DATA_LOCK are released as the exception leaves
\* the two "with" blocks, and the device stays registered and polling.
C26_EmptyUnregister ==
    [][/\ (DeviceStep("unregister_entity") /\ entities[op["loop"].pin] = "None") =>
             /\ ret'["loop"] \in {"raised", "None"}
             /\ UNCHANGED <<entities, update_bitmap, cache, run, worker, in_registry>>
       /\ (pc["loop"] = "done" /\ ret["loop"] = "raised" /\ pc'["loop"] # "done") =>
             /\ pc'["loop"] = "idle"
             /\ device_lock' = "free"
             /\ data_lock' = "free"
             /\ in_registry'
             /\ UNCHANGED <<entities, update_bitmap, cache, run, worker>>]_vars

\* unregister_entity(8) has raised on the empty slot while pin 7 is bound to a
\* reactive entity and the thread polls
C26_Witness ==
    /\ pc["loop"] = "done"
    /\ op["loop"].name = "unregister_entity"
    /\ op["loop"].pin = 8
    /\ ret["loop"] = "raised"
    /\ entities[8] = "None"
    /\ entities[7] = "reactive"
    /\ run
    /\ is_alive(worker)

\* C27: when the write of set_pin_value(p, v) was dropped by a transport fault and the
\* same call is made again with no failing transport call, bit p of the chip's OLAT
\* register is v afterwards.
C27_DroppedWriteRetried ==
    (/\ Len(recent) = 2
     /\ recent[1].op.name = "set_pin_value"
     /\ recent[2].op = recent[1].op
     /\ recent[1].io # <<>>
     /\ ~recent[1].io[1].ok
     /\ (recent[2].io = <<>> \/ recent[2].io[1].ok))
        => TestBit(hw.OLAT, recent[1].op.pin) = recent[1].op.value

\* C28: every level a poll cycle passes to push_update for a pin is the level the chip
\* has for the pin in that cycle.
C28_DeliveredLevelReal ==
    [][DispatchStep =>
          \A i \in 1..Len(notified') :
             notified'[i].level = TestBit(HwGpio(hw), notified'[i].pin)]_vars

\* C29: Thread.start() never raises in a listener or in async_get_or_create: the run
\* flag is only ever set for a thread that was never started (a new MCP23017 or one
\* still waiting for the start event), whatever the order of async_get_or_create,
\* async_unload_entry, the start listener and the stop listener.
C29_StartedOnce ==
    /\ [](\A t \in Callers : op[t].name = "start_polling" => ret[t] # "raised")
    /\ [][/\ (run' /\ ~run) => (instance' # instance \/ worker = "new")
          /\ (worker' = "idle" /\ worker \notin {"idle", "release"})
                => (instance' # instance \/ worker = "new")]_vars

\* C30: a device-lock section is always that of a poll cycle in progress or of a
\* caller operation about to return, MCP23017_DATA_LOCK is only held by a registry
\* operation in progress, a join only waits for a thread whose run flag is clear, and
\* with every thread scheduled each registry operation returns (and frees
\* MCP23017_DATA_LOCK), also through the join of async_unload_entry, and a device
\* lock that is held becomes free.
C30_DeadlockFree ==
    /\ [](/\ (device_lock = "poll") = (worker \in InCycle)
          /\ \A t \in Callers : (device_lock = t) = (pc[t] = "done")
          /\ \A t \in Callers :
                data_lock = t => pc[t] \in {"wait", "done", "check", "join"}
          /\ \A t \in Callers :
                (pc[t] \in {"join", "joining"} /\ worker \in InCycle \cup {"idle"}) => ~run)
    /\ (pc["loop"] # "idle") ~> (pc["loop"] = "idle")
    /\ (device_lock # "free") ~> (device_lock = "free")

\* async_unload_entry waits in join() with MCP23017_DATA_LOCK held while the poll
\* cycle holds the device lock
C30_Witness ==
    /\ pc["loop"] = "join"
    /\ data_lock = "loop"
    /\ device_lock = "poll"
    /\ worker = "dispatch"
    /\ ~run

\* C31: for a momentary switch, after any sequence of async_turn_on / async_turn_off
\* calls at most one turn-off timer is pending.
C31_SingleTimer == Cardinality(sw.timers) <= 1

====
